---- MODULE Spec2Model ----
(***************************************************************************)
(* Model of the contract-analysis pipeline of ai-contract-checker:         *)
(*   backend/app/core/analyzer.py   (ContractAnalyzer)                     *)
(*   backend/app/core/processor.py  (TextNormalizer, ContractProcessor)    *)
(* Texts are sequences of one-character strings, so that strip, split,     *)
(* find/rfind, slicing, regular-expression substitution and JSON decoding  *)
(* act on characters as in the code.                                       *)
(***************************************************************************)
EXTENDS Integers, Sequences, FiniteSets, TLC

VARIABLES
    pc,               \* position of the analyze invocation
    steps,            \* the steps of analyze run so far, in order
    timeout_seconds,  \* self.timeout_seconds (configuration)
    request,          \* keyword arguments of the issued client.responses.create
    client,           \* options the OpenAI client was constructed with
    remote,           \* what the remote call did: an exception or a response
    raw_response,     \* analyze: the value _call_gpt returned
    text_stripped,    \* _parse_response: the text handed to json.loads
    parsed,           \* _parse_response: the decoded value
    analysis,         \* the ContractAnalysis built by _create_analysis_object
    serialized,       \* result of to_dict
    outcome,          \* how analyze ended: "none", "returned" or "raised"
    exc,              \* the exception that escaped analyze
    log,              \* records written to the logger by _parse_response
    normalize_text,   \* ContractProcessor.normalize_text (configuration)
    extract_pc,       \* position of the extract_text call: "idle" or "done"
    file_path,        \* extract_text: the file_path argument
    clean,            \* extract_text: the clean argument
    path_exists,      \* what os.path.exists(file_path) answers
    library,          \* what pypdf / python-docx do with the file
    library_calls,    \* the library entry points extract_text has invoked
    extracted,        \* the text _extract_from_pdf / _extract_from_docx returned
    extract_result,   \* what extract_text returned or raised
    norm_input,       \* the text handed to TextNormalizer.normalize
    norm_results,     \* results of the successive normalize calls
    val_text,         \* validate_contract_text: the text argument
    min_length,       \* validate_contract_text: the min_length argument
    val_result,       \* validate_contract_text: returned dictionary and steps run
    val_pc            \* position of the validate_contract_text call

analyzer_vars == <<pc, steps, timeout_seconds, request, client, remote, raw_response,
                   text_stripped, parsed, analysis, serialized, outcome, exc, log>>

extract_vars == <<normalize_text, extract_pc, file_path, clean, path_exists, library,
                  library_calls, extracted, extract_result>>

normalize_vars == <<norm_input, norm_results>>

validate_vars == <<val_text, min_length, val_result, val_pc>>

processor_vars == <<extract_vars, normalize_vars, validate_vars>>

vars == <<analyzer_vars, processor_vars>>

----------------------------------------------------------------------------
(* Characters and words *)

s_summary == <<"s", "u", "m", "m", "a", "r", "y">>
s_key_terms == <<"k", "e", "y", "_", "t", "e", "r", "m", "s">>
s_red_flags == <<"r", "e", "d", "_", "f", "l", "a", "g", "s">>
s_risk_score == <<"r", "i", "s", "k", "_", "s", "c", "o", "r", "e">>
s_recommendations == <<"r", "e", "c", "o", "m", "m", "e", "n", "d", "a", "t", "i", "o", "n", "s">>
s_processing_time == <<"p", "r", "o", "c", "e", "s", "s", "i", "n", "g", "_", "t", "i", "m", "e">>
s_clause_text == <<"c", "l", "a", "u", "s", "e", "_", "t", "e", "x", "t">>
s_risk_type == <<"r", "i", "s", "k", "_", "t", "y", "p", "e">>
s_explanation == <<"e", "x", "p", "l", "a", "n", "a", "t", "i", "o", "n">>
s_why_risky == <<"w", "h", "y", "_", "r", "i", "s", "k", "y">>
s_suggested_alternative == <<"s", "u", "g", "g", "e", "s", "t", "e", "d", "_", "a", "l", "t", "e", "r", "n", "a", "t", "i", "v", "e">>
s_severity == <<"s", "e", "v", "e", "r", "i", "t", "y">>
s_financial_risk == <<"f", "i", "n", "a", "n", "c", "i", "a", "l", "_", "r", "i", "s", "k">>
s_legal_exposure == <<"l", "e", "g", "a", "l", "_", "e", "x", "p", "o", "s", "u", "r", "e">>
s_fairness == <<"f", "a", "i", "r", "n", "e", "s", "s">>
s_missing_clauses == <<"m", "i", "s", "s", "i", "n", "g", "_", "c", "l", "a", "u", "s", "e", "s">>
s_overall_score == <<"o", "v", "e", "r", "a", "l", "l", "_", "s", "c", "o", "r", "e">>
s_low == <<"l", "o", "w">>
s_medium == <<"m", "e", "d", "i", "u", "m">>
s_high == <<"h", "i", "g", "h">>
s_json == <<"j", "s", "o", "n">>
s_null == <<"n", "u", "l", "l">>
s_true == <<"t", "r", "u", "e">>
s_false == <<"f", "a", "l", "s", "e">>

\* The grave accent (code point 96) cannot be written in a TLA+ string: this
\* one-element token stands for that character.
Backtick == "GRAVE"
Fence == <<Backtick, Backtick, Backtick>>
NL == <<"\n">>
Quote == <<"\"">>

Whitespace == {" ", "\n", "\t", "\r"}

UpperChars == <<"A", "B", "C", "D", "E", "F", "G", "H", "I", "J", "K", "L", "M",
                "N", "O", "P", "Q", "R", "S", "T", "U", "V", "W", "X", "Y", "Z">>
LowerChars == <<"a", "b", "c", "d", "e", "f", "g", "h", "i", "j", "k", "l", "m",
                "n", "o", "p", "q", "r", "s", "t", "u", "v", "w", "x", "y", "z">>
DigitChars == <<"0", "1", "2", "3", "4", "5", "6", "7", "8", "9">>

Min(S) == CHOOSE x \in S : \A y \in S : x <= y
Max(S) == CHOOSE x \in S : \A y \in S : x >= y

----------------------------------------------------------------------------
(* Python str operations, on character sequences *)

\* str.lower()
LowerChar(c) ==
    IF \E i \in 1..26 : UpperChars[i] = c
    THEN LowerChars[CHOOSE i \in 1..26 : UpperChars[i] = c]
    ELSE c

Lower(s) == [i \in 1..Len(s) |-> LowerChar(s[i])]

\* str.strip()
RECURSIVE FirstKept(_, _), LastKept(_, _)
FirstKept(s, i) == IF i <= Len(s) /\ s[i] \in Whitespace THEN FirstKept(s, i + 1) ELSE i
LastKept(s, i) == IF i >= 1 /\ s[i] \in Whitespace THEN LastKept(s, i - 1) ELSE i
Strip(s) == SubSeq(s, FirstKept(s, 1), LastKept(s, Len(s)))

\* str.startswith(p)
StartsWith(s, p) == Len(s) >= Len(p) /\ SubSeq(s, 1, Len(p)) = p

\* str.find(c) and str.rfind(c): 0-based index, -1 when absent
Find(s, c) ==
    LET at == {i \in 1..Len(s) : s[i] = c}
    IN  IF at = {} THEN -1 ELSE Min(at) - 1

RFind(s, c) ==
    LET at == {i \in 1..Len(s) : s[i] = c}
    IN  IF at = {} THEN -1 ELSE Max(at) - 1

\* s[a:b] for 0 <= a, 0 <= b
Slice(s, a, b) == SubSeq(s, a + 1, IF b > Len(s) THEN Len(s) ELSE b)

\* 1-based position of the first occurrence of sep in s, 0 when absent
FindSub(s, sep) ==
    LET at == {i \in 1..(Len(s) - Len(sep) + 1) : SubSeq(s, i, i + Len(sep) - 1) = sep}
    IN  IF at = {} THEN 0 ELSE Min(at)

\* str.split(sep)
RECURSIVE Split(_, _)
Split(s, sep) ==
    LET i == FindSub(s, sep)
    IN  IF i = 0 THEN <<s>>
        ELSE <<SubSeq(s, 1, i - 1)>> \o Split(SubSeq(s, i + Len(sep), Len(s)), sep)

\* sep.join(parts)
RECURSIVE Join(_, _)
Join(parts, sep) ==
    IF parts = <<>> THEN <<>>
    ELSE IF Len(parts) = 1 THEN parts[1]
    ELSE parts[1] \o sep \o Join(Tail(parts), sep)

----------------------------------------------------------------------------
(* JSON values. Every value is a record [t, v]: t is the Python type, v    *)
(* the payload. A dict is a sequence of [k, x] items in insertion order.   *)

JStr(s)   == [t |-> "str",  v |-> s]
JNum(n)   == [t |-> "int",  v |-> n]
JBool(b)  == [t |-> "bool", v |-> b]
JNone     == [t |-> "NoneType", v |-> 0]
JList(xs) == [t |-> "list", v |-> xs]
JDict(kv) == [t |-> "dict", v |-> kv]

Item(k, x) == [k |-> k, x |-> x]

HasKey(d, k) == \E i \in 1..Len(d.v) : d.v[i].k = k

\* dict.get(k, default)
Get(d, k, default) ==
    IF HasKey(d, k)
    THEN d.v[CHOOSE i \in 1..Len(d.v) : d.v[i].k = k].x
    ELSE default

\* d[k] = x on the item sequence kv
SetItem(kv, k, x) ==
    IF \E i \in 1..Len(kv) : kv[i].k = k
    THEN [i \in 1..Len(kv) |-> IF kv[i].k = k THEN Item(k, x) ELSE kv[i]]
    ELSE Append(kv, Item(k, x))

\* bool(x)
Truthy(x) ==
    CASE x.t = "str"      -> x.v # <<>>
      [] x.t = "int"      -> x.v # 0
      [] x.t = "bool"     -> x.v
      [] x.t = "NoneType" -> FALSE
      [] x.t = "list"     -> x.v # <<>>
      [] x.t = "dict"     -> x.v # <<>>
      [] OTHER            -> TRUE

----------------------------------------------------------------------------
(* json.loads. The decoder covers objects, arrays, strings, non-negative   *)
(* integers and the literals null/true/false; the response texts of this   *)
(* model hold no backslash, sign, fraction or exponent.                    *)

JsonWs == {" ", "\n", "\t", "\r"}
ControlChars == {"\n", "\t", "\r"}

NoParse == [ok |-> FALSE, val |-> JNone, next |-> 0]
Parsed(x, n) == [ok |-> TRUE, val |-> x, next |-> n]

CharAt(s, i) == IF i >= 1 /\ i <= Len(s) THEN s[i] ELSE ""

\* the first position from i on that holds no JSON whitespace
RECURSIVE SkipWs(_, _)
SkipWs(s, i) == IF i <= Len(s) /\ s[i] \in JsonWs THEN SkipWs(s, i + 1) ELSE i

IsDigit(c) == \E i \in 1..10 : DigitChars[i] = c
DigitVal(c) == (CHOOSE i \in 1..10 : DigitChars[i] = c) - 1

RECURSIVE NumVal(_)
NumVal(ds) ==
    IF ds = <<>> THEN 0
    ELSE 10 * NumVal(SubSeq(ds, 1, Len(ds) - 1)) + DigitVal(ds[Len(ds)])

\* the position of the first double quote from j on, 0 when there is none
RECURSIVE NextQuote(_, _)
NextQuote(s, j) ==
    IF j > Len(s) THEN 0 ELSE IF s[j] = "\"" THEN j ELSE NextQuote(s, j + 1)

\* py_scanstring; s[i] is the opening quote
ScanString(s, i) ==
    LET j == NextQuote(s, i + 1)
    IN  IF j = 0 THEN NoParse
        ELSE LET body == SubSeq(s, i + 1, j - 1)
             IN  IF \E n \in 1..Len(body) : body[n] \in ControlChars
                 THEN NoParse
                 ELSE Parsed(JStr(body), j + 1)

\* the first position from j on that holds no digit
RECURSIVE DigitsEnd(_, _)
DigitsEnd(s, j) == IF j <= Len(s) /\ IsDigit(s[j]) THEN DigitsEnd(s, j + 1) ELSE j

\* (0|[1-9][0-9]*) at position i
ScanNumber(s, i) ==
    IF s[i] = "0" THEN Parsed(JNum(0), i + 1)
    ELSE LET e == DigitsEnd(s, i)
         IN  Parsed(JNum(NumVal(SubSeq(s, i, e - 1))), e)

RECURSIVE ScanOnce(_, _), ScanMembers(_, _, _), ScanElements(_, _, _)

\* i is the position of the opening quote of a key; reads key : value pairs up to the closing brace
ScanMembers(s, i, kv) ==
    LET key == ScanString(s, i)
    IN  IF ~key.ok THEN NoParse
        ELSE LET c == SkipWs(s, key.next)
             IN  IF CharAt(s, c) # ":" THEN NoParse
                 ELSE LET val == ScanOnce(s, SkipWs(s, c + 1))
                      IN  IF ~val.ok THEN NoParse
                          ELSE LET e == SkipWs(s, val.next)
                                   kv2 == SetItem(kv, key.val.v, val.val)
                               IN  IF CharAt(s, e) = "}" THEN Parsed(JDict(kv2), e + 1)
                                   ELSE IF CharAt(s, e) # "," THEN NoParse
                                   ELSE LET q == SkipWs(s, e + 1)
                                        IN  IF CharAt(s, q) # "\"" THEN NoParse
                                            ELSE ScanMembers(s, q, kv2)

\* at the first character of an element
ScanElements(s, i, xs) ==
    LET val == ScanOnce(s, i)
    IN  IF ~val.ok THEN NoParse
        ELSE LET e == SkipWs(s, val.next)
                 xs2 == Append(xs, val.val)
             IN  IF CharAt(s, e) = "]" THEN Parsed(JList(xs2), e + 1)
                 ELSE IF CharAt(s, e) # "," THEN NoParse
                 ELSE ScanElements(s, SkipWs(s, e + 1), xs2)

ScanOnce(s, i) ==
    LET c == CharAt(s, i)
    IN  IF c = "\"" THEN ScanString(s, i)
        ELSE IF c = "{" THEN
            LET q == SkipWs(s, i + 1)
            IN  IF CharAt(s, q) = "}" THEN Parsed(JDict(<<>>), q + 1)
                ELSE IF CharAt(s, q) # "\"" THEN NoParse
                ELSE ScanMembers(s, q, <<>>)
        ELSE IF c = "[" THEN
            LET q == SkipWs(s, i + 1)
            IN  IF CharAt(s, q) = "]" THEN Parsed(JList(<<>>), q + 1)
                ELSE ScanElements(s, q, <<>>)
        ELSE IF c = "n" /\ SubSeq(s, i, i + 3) = s_null THEN Parsed(JNone, i + 4)
        ELSE IF c = "t" /\ SubSeq(s, i, i + 3) = s_true THEN Parsed(JBool(TRUE), i + 4)
        ELSE IF c = "f" /\ SubSeq(s, i, i + 4) = s_false THEN Parsed(JBool(FALSE), i + 5)
        ELSE IF IsDigit(c) THEN ScanNumber(s, i)
        ELSE NoParse

\* json.loads(s): ok = FALSE stands for JSONDecodeError
json_loads(s) ==
    LET r == ScanOnce(s, SkipWs(s, 1))
    IN  IF ~r.ok THEN NoParse
        ELSE IF SkipWs(s, r.next) # Len(s) + 1 THEN NoParse
        ELSE r

----------------------------------------------------------------------------
(* Exceptions and results of the steps of analyze *)

\* type: the Python class; msg: the literal message; payload: the run-time
\* text interpolated into the message; context: the class of the exception
\* being handled when this one was raised (__context__), "None" when none.
Exc(type, msg, payload, context) ==
    [type |-> type, msg |-> msg, payload |-> payload, context |-> context]

NoExc == Exc("None", "", <<>>, "None")

Ret(x)   == [ok |-> TRUE,  val |-> x,     exc |-> NoExc]
Raise(e) == [ok |-> FALSE, val |-> JNone, exc |-> e]

LogRec(level, msg, payload) == [level |-> level, msg |-> msg, payload |-> payload]

ModelName == "gpt-4.1"
DefaultTimeout == 60
MaxOutputTokens == 1200
SnippetChars == 1000

----------------------------------------------------------------------------
(* ContractAnalyzer.__init__ *)

\* OpenAI(api_key=api_key): the options the client is constructed with
client_options(api_key) == [api_key |-> api_key]

----------------------------------------------------------------------------
(* ContractAnalyzer._call_gpt *)

\* keyword arguments of self.client.responses.create(...)
create_kwargs(model_name) ==
    [model |-> model_name,
     input |-> <<"system", "user">>,
     max_output_tokens |-> MaxOutputTokens]

\* the call without the except clause: the exception of the client escapes
call_gpt_unwrapped(r) ==
    IF r.kind = "raises"
    THEN Raise(Exc(r.type, "", r.text, "None"))
    ELSE Ret(r.response)

\* r is what the client call does: it raises, or it returns a response
call_gpt(r) ==
    IF r.kind = "raises"
    THEN Raise(Exc("RuntimeError", "AI analysis failed: ", r.text, r.type))
    ELSE Ret(r.response)

----------------------------------------------------------------------------
(* ContractAnalyzer._extract_text_from_response                            *)
(* A response is [shape, output_text, output]. shape "object" is an SDK    *)
(* object (attributes), shape "dict" a plain mapping. output is a sequence *)
(* of items [content, has_text, text]; content is the sequence of the      *)
(* texts of its blocks. output_text = <<>> stands for None or the empty    *)
(* string; shape "None" is the value None. No response has a body or raw   *)
(* attribute.                                                              *)

RECURSIVE item_parts(_)
item_parts(output) ==
    IF output = <<>> THEN <<>>
    ELSE LET item == Head(output)
         IN  item.content
             \o (IF item.has_text THEN <<item.text>> ELSE <<>>)
             \o item_parts(Tail(output))

extract_text_from_response(response) ==
    IF response.shape = "None" THEN <<>>
    ELSE IF response.shape = "object" /\ response.output_text # <<>>
    THEN response.output_text
    ELSE IF response.shape = "object"
         \* items of an SDK object are not dicts (nothing is collected), and
         \* an empty output makes response.get raise, which is caught
         THEN <<>>
         ELSE Strip(Join(item_parts(response.output), NL))

----------------------------------------------------------------------------
(* ContractAnalyzer._parse_response *)

\* the first segment that, stripped, starts with an opening brace; <<>> when none
RECURSIVE first_json_part(_)
first_json_part(parts) ==
    IF parts = <<>> THEN <<>>
    ELSE IF StartsWith(Strip(Head(parts)), <<"{">>) THEN Strip(Head(parts))
    ELSE first_json_part(Tail(parts))

\* lines 228-237: text.strip(), then the code-fence step
fence_strip(text) ==
    LET stripped == Strip(text)
    IN  IF StartsWith(stripped, Fence)
        THEN LET p == first_json_part(Split(stripped, Fence))
             IN  IF p # <<>> THEN p ELSE stripped
        ELSE stripped

\* lines 246-249: the slice from the first opening to the last closing brace;
\* ok = FALSE when the guard of line 248 fails
brace_candidate(t) ==
    LET start == Find(t, "{")
        end == RFind(t, "}")
    IN  IF start # -1 /\ end # -1 /\ end > start
        THEN [ok |-> TRUE, text |-> Slice(t, start, end + 1)]
        ELSE [ok |-> FALSE, text |-> <<>>]

snippet_whole_text(t) == t

\* line 255: what the error record carries of the text
snippet(t) == Slice(t, 0, SnippetChars)

\* [ok, val, exc] extended with the stripped text and the log records written
parse_response(response) ==
    LET text == extract_text_from_response(response)
    IN  IF text = <<>>
        THEN Raise(Exc("RuntimeError", "AI returned no output.", <<>>, "None"))
             @@ [stripped |-> <<>>,
                 log |-> <<LogRec("error", "No textual output extracted from model response.", <<>>)>>]
        ELSE LET t == fence_strip(text)
                 direct == json_loads(t)
             IN  IF direct.ok
                 THEN Ret(direct.val) @@ [stripped |-> t, log |-> <<>>]
                 ELSE LET cand == brace_candidate(t)
                          sub == IF cand.ok THEN json_loads(cand.text) ELSE NoParse
                          warn == LogRec("warning", "JSON decode failed, attempting to locate JSON substring...", <<>>)
                      IN  IF sub.ok
                          THEN Ret(sub.val) @@ [stripped |-> t, log |-> <<warn>>]
                          ELSE Raise(Exc("RuntimeError", "Failed to parse AI response as JSON.",
                                         <<>>, "JSONDecodeError"))
                               @@ [stripped |-> t,
                                   log |-> <<warn>>
                                       \o (IF cand.ok
                                           THEN <<LogRec("error", "Failed extracting JSON substring from model output", <<>>)>>
                                           ELSE <<>>)
                                       \o <<LogRec("error", "Failed to parse model output as JSON. Raw output (first 1000 chars): ",
                                                   snippet(t))>>]

----------------------------------------------------------------------------
(* Dataclasses and the RiskLevel enum *)

\* an instance of dataclass cls: its fields in declaration order
DC(cls, items) == [t |-> cls, v |-> items]
Dataclasses == {"RedFlag", "RiskScore", "ContractAnalysis"}

\* RiskLevel._value2member_map_
RiskLevelValues == {s_low, s_medium, s_high}
RiskLevel(value) == [t |-> "RiskLevel", v |-> value]

JFloat(n) == [t |-> "float", v |-> n]

AttributeError(attr) == Exc("AttributeError", attr, <<>>, "None")
TypeError(what) == Exc("TypeError", what, <<>>, "None")

----------------------------------------------------------------------------
(* ContractAnalyzer._create_analysis_object *)

\* lines 265-266: (flag_data.get("severity", "medium") or "medium").lower(), then the lookup
severity_of(flag_data) ==
    LET got == Get(flag_data, s_severity, JStr(s_medium))
        raw == IF Truthy(got) THEN got ELSE JStr(s_medium)
    IN  IF raw.t # "str" THEN Raise(AttributeError("lower"))
        ELSE LET severity_raw == Lower(raw.v)
             IN  Ret(RiskLevel(IF severity_raw \in RiskLevelValues
                               THEN severity_raw ELSE s_medium))

\* lines 265-276: the body of the try block for one entry
make_red_flag(flag_data) ==
    IF flag_data.t # "dict" THEN Raise(AttributeError("get"))
    ELSE LET severity == severity_of(flag_data)
         IN  IF ~severity.ok THEN severity
             ELSE Ret(DC("RedFlag",
                    <<Item(s_clause_text, Get(flag_data, s_clause_text, JStr(<<>>))),
                      Item(s_risk_type, Get(flag_data, s_risk_type, JStr(<<>>))),
                      Item(s_explanation, Get(flag_data, s_explanation, JStr(<<>>))),
                      Item(s_why_risky, Get(flag_data, s_why_risky, JStr(<<>>))),
                      Item(s_suggested_alternative, Get(flag_data, s_suggested_alternative, JStr(<<>>))),
                      Item(s_severity, severity.val)>>))

\* the loop leaving at the first entry whose try block raises
RECURSIVE build_red_flags_until_malformed(_)
build_red_flags_until_malformed(entries) ==
    IF entries = <<>> THEN <<>>
    ELSE LET flag == make_red_flag(Head(entries))
         IN  IF flag.ok THEN <<flag.val>> \o build_red_flags_until_malformed(Tail(entries))
             ELSE <<>>

\* lines 263-279: the loop; an entry whose try block raises is skipped
RECURSIVE build_red_flags(_)
build_red_flags(entries) ==
    IF entries = <<>> THEN <<>>
    ELSE LET flag == make_red_flag(Head(entries))
         IN  (IF flag.ok THEN <<flag.val>> ELSE <<>>) \o build_red_flags(Tail(entries))

\* what a for loop over x iterates: the elements of a list, the characters
\* of a str, the keys of a dict
Iterable(x) == x.t \in {"list", "str", "dict"}
iter_values(x) ==
    CASE x.t = "list" -> x.v
      [] x.t = "str"  -> [i \in 1..Len(x.v) |-> JStr(<<x.v[i]>>)]
      [] x.t = "dict" -> [i \in 1..Len(x.v) |-> JStr(x.v[i].k)]

\* lines 282-284
parse_risk_field(risk_data, key, default) ==
    LET got == Get(risk_data, key, JStr(default))
        chosen == IF Truthy(got) THEN got ELSE JStr(default)
    IN  IF chosen.t # "str" THEN Raise(AttributeError("lower"))
        ELSE LET raw == Lower(chosen.v)
             IN  Ret(RiskLevel(IF raw \in RiskLevelValues THEN raw ELSE default))

RiskFields == <<s_financial_risk, s_legal_exposure, s_fairness,
                s_missing_clauses, s_overall_score>>

\* lines 281-292
make_risk_score(risk_data) ==
    IF risk_data.t # "dict" THEN Raise(AttributeError("get"))
    ELSE LET fields == [i \in 1..Len(RiskFields) |->
                            parse_risk_field(risk_data, RiskFields[i], s_medium)]
             failed == {i \in 1..Len(RiskFields) : ~fields[i].ok}
         IN  IF failed # {} THEN fields[Min(failed)]
             ELSE Ret(DC("RiskScore",
                         [i \in 1..Len(RiskFields) |-> Item(RiskFields[i], fields[i].val)]))

create_analysis_object(data) ==
    IF data.t # "dict" THEN Raise(AttributeError("get"))
    ELSE LET flags_raw == Get(data, s_red_flags, JList(<<>>))
         IN  IF ~Iterable(flags_raw) THEN Raise(TypeError("not iterable"))
             ELSE LET red_flags == build_red_flags(iter_values(flags_raw))
                      risk_score == make_risk_score(Get(data, s_risk_score, JDict(<<>>)))
                  IN  IF ~risk_score.ok THEN risk_score
                      ELSE Ret(DC("ContractAnalysis",
                             <<Item(s_summary, Get(data, s_summary, JStr(<<>>))),
                               Item(s_key_terms, Get(data, s_key_terms, JDict(<<>>))),
                               Item(s_red_flags, JList(red_flags)),
                               Item(s_risk_score, risk_score.val),
                               Item(s_recommendations, Get(data, s_recommendations, JList(<<>>))),
                               Item(s_processing_time, JFloat(0))>>))

\* line 95: analysis.processing_time = time.time() - start_time
set_processing_time(a, elapsed) ==
    DC(a.t, SetItem(a.v, s_processing_time, JFloat(elapsed)))

----------------------------------------------------------------------------
(* ContractAnalyzer.to_dict *)

\* dataclasses.asdict: dataclass instances become dicts, recursively through
\* lists and dicts; every other value is copied
RECURSIVE asdict(_)
asdict(x) ==
    CASE x.t \in Dataclasses ->
            JDict([i \in 1..Len(x.v) |-> Item(x.v[i].k, asdict(x.v[i].x))])
      [] x.t = "list" -> JList([i \in 1..Len(x.v) |-> asdict(x.v[i])])
      [] x.t = "dict" ->
            JDict([i \in 1..Len(x.v) |-> Item(x.v[i].k, asdict(x.v[i].x))])
      [] OTHER -> x

\* getattr(v, "value", v)
value_of(x) == IF x.t = "RiskLevel" THEN JStr(x.v) ELSE x

\* the element left as asdict made it
flag_left_as_is(flag) == flag

\* lines 311-313: one element of the red_flags list of the result
flag_to_dict(flag) ==
    IF Get(flag, s_severity, JNone).t = "RiskLevel"
    THEN JDict(SetItem(flag.v, s_severity, JStr(Get(flag, s_severity, JNone).v)))
    ELSE flag

to_dict(a) ==
    LET result == asdict(a)
        scores == Get(result, s_risk_score, JDict(<<>>))
        plain_scores ==
            JDict([i \in 1..Len(scores.v) |-> Item(scores.v[i].k, value_of(scores.v[i].x))])
        flags == Get(result, s_red_flags, JList(<<>>))
        plain_flags == JList([i \in 1..Len(flags.v) |-> flag_to_dict(flags.v[i])])
    IN  JDict(SetItem(SetItem(result.v, s_risk_score, plain_scores),
                      s_red_flags, plain_flags))

----------------------------------------------------------------------------
(* The environment: what the remote model may answer.                      *)

MaxFlags == 2     \* longest red_flags list the model answers with
MaxElapsed == 1   \* largest elapsed time, in seconds

RECURSIVE Digits(_)
Digits(n) ==
    IF n < 10 THEN <<DigitChars[n + 1]>>
    ELSE Digits(n \div 10) \o <<DigitChars[(n % 10) + 1]>>

\* the JSON text of a value, as json.dumps writes it
RECURSIVE Dumps(_), DumpsItems(_), DumpsElems(_)
Dumps(x) ==
    CASE x.t = "str"      -> Quote \o x.v \o Quote
      [] x.t = "int"      -> Digits(x.v)
      [] x.t = "bool"     -> IF x.v THEN s_true ELSE s_false
      [] x.t = "NoneType" -> s_null
      [] x.t = "list"     -> <<"[">> \o DumpsElems(x.v) \o <<"]">>
      [] x.t = "dict"     -> <<"{">> \o DumpsItems(x.v) \o <<"}">>
DumpsItems(kv) ==
    IF kv = <<>> THEN <<>>
    ELSE Quote \o kv[1].k \o Quote \o <<":", " ">> \o Dumps(kv[1].x)
         \o (IF Len(kv) > 1 THEN <<",", " ">> \o DumpsItems(Tail(kv)) ELSE <<>>)
DumpsElems(xs) ==
    IF xs = <<>> THEN <<>>
    ELSE Dumps(xs[1])
         \o (IF Len(xs) > 1 THEN <<",", " ">> \o DumpsElems(Tail(xs)) ELSE <<>>)

RECURSIVE Concat(_)
Concat(seqs) == IF seqs = <<>> THEN <<>> ELSE Head(seqs) \o Concat(Tail(seqs))

\* values a risk-bearing field may be given
s_HIGH == <<"H", "I", "G", "H">>
s_Low == <<"L", "o", "w">>
s_URGENT == <<"U", "R", "G", "E", "N", "T">>
RiskRaw ==
    <<JStr(s_low), JStr(s_medium), JStr(s_high), JStr(s_HIGH), JStr(s_Low),
      JStr(s_URGENT), JStr(<<>>), JNone, JNum(0), JNum(5), JBool(TRUE),
      JBool(FALSE), JList(<<>>), JList(<<JStr(s_high)>>), JDict(<<>>)>>

\* risk_score with each field absent (0) or given RiskRaw[c[i]]
RiskDict(c) ==
    JDict(Concat([i \in 1..Len(RiskFields) |->
                    IF c[i] = 0 THEN <<>> ELSE <<Item(RiskFields[i], RiskRaw[c[i]])>>]))

\* every field absent, upper-case high, or unrecognized; and one field given
\* any raw value while another is given a recognized one
RiskChoices ==
    [1..Len(RiskFields) -> {0, 4, 6}]
    \cup {[i \in 1..Len(RiskFields) |-> IF i = f THEN r ELSE IF i = g THEN 1 ELSE 0] :
            f \in 1..Len(RiskFields), g \in {0, 1, 5}, r \in 1..Len(RiskRaw)}

\* the items of the answer for risk_score: absent, a dict, or another type
RiskItems ==
    {<<>>}
    \cup {<<Item(s_risk_score, RiskDict(c))>> : c \in RiskChoices}
    \cup {<<Item(s_risk_score, JNone)>>, <<Item(s_risk_score, JList(<<>>))>>,
          <<Item(s_risk_score, JStr(s_high))>>, <<Item(s_risk_score, JNum(5))>>}

\* red_flags entries: three that construct, three that do not
EntryKinds ==
    <<JDict(<<Item(s_clause_text, JStr(<<"a">>)), Item(s_severity, JStr(s_HIGH))>>),
      JDict(<<Item(s_clause_text, JStr(<<"b">>)), Item(s_severity, JStr(s_URGENT))>>),
      JDict(<<Item(s_clause_text, JStr(<<"c">>)), Item(s_risk_type, JNum(5))>>),
      JNum(5),
      JDict(<<Item(s_clause_text, JStr(<<"d">>)), Item(s_severity, JNum(5))>>),
      JNone>>

FlagChoices == UNION {[1..n -> 1..Len(EntryKinds)] : n \in 0..MaxFlags}

FlagItems ==
    {<<>>}
    \cup {<<Item(s_red_flags, JList([i \in 1..Len(c) |-> EntryKinds[c[i]]]))>> : c \in FlagChoices}
    \cup {<<Item(s_red_flags, JNone)>>, <<Item(s_red_flags, JNum(5))>>,
          <<Item(s_red_flags, JBool(TRUE))>>, <<Item(s_red_flags, JStr(<<"a", "b">>))>>,
          <<Item(s_red_flags, JDict(<<Item(<<"a">>, JNum(1))>>))>>}

FewRiskItems ==
    {<<>>, <<Item(s_risk_score, JDict(<<Item(s_fairness, JStr(s_low))>>))>>,
     <<Item(s_risk_score, JNone)>>}
FewFlagItems ==
    {<<>>, <<Item(s_red_flags, JList(<<EntryKinds[1], EntryKinds[5], EntryKinds[2]>>))>>}

\* the other top-level fields: absent, as prompted, or of another type
RestItems ==
    {<<>>,
     <<Item(s_summary, JStr(<<"x">>)),
       Item(s_key_terms, JDict(<<Item(<<"p">>, JStr(<<"q">>))>>)),
       Item(s_recommendations, JList(<<JStr(<<"r">>)>>))>>,
     <<Item(s_summary, JNum(5)), Item(s_key_terms, JList(<<JNone>>))>>}

\* answers that are JSON objects in the prompted layout
StructTexts ==
    {Dumps(JDict(f \o r)) : f \in FewFlagItems, r \in RiskItems}
    \cup {Dumps(JDict(r \o f)) : f \in FlagItems, r \in FewRiskItems}
    \cup {Dumps(JDict(o \o f \o r)) : o \in RestItems, f \in FewFlagItems, r \in FewRiskItems}

\* JSON objects wrapped in prose, fences or other JSON
ObjectTexts ==
    {Dumps(JDict(<<Item(s_summary, JStr(<<"x">>))>>)),
     Dumps(JDict(<<Item(s_summary, JStr(<<"o", "k">>)), Item(s_red_flags, JList(<<>>))>>)),
     Dumps(JDict(<<Item(s_key_terms, JDict(<<Item(<<"p">>, JStr(<<"q">>))>>)),
                   Item(s_summary, JStr(<<"x">>))>>)),
     Dumps(JDict(<<>>)),
     Dumps(JDict(<<Item(s_summary, JStr(<<"a">> \o Fence \o <<"b">>))>>)),
     Dumps(JDict(<<Item(s_summary, JStr(Fence \o <<"{">>))>>)),
     Dumps(JDict(<<Item(s_summary, JStr(<<"}", "{">>))>>))}

s_Result == <<"R", "e", "s", "u", "l", "t", ":", " ">>
s_Thanks == <<" ", "T", "h", "a", "n", "k", "s", "!">>

Prefixes ==
    {<<>>, s_Result, Fence \o s_json \o NL, Fence \o NL, Fence \o <<" ">> \o s_Result,
     <<"[">>, Quote, <<" ", "\n">>}
Suffixes ==
    {<<>>, s_Thanks, NL \o Fence, NL \o Fence \o s_Thanks, <<"]">>, Quote, NL}

WrappedTexts == {p \o j \o q : p \in Prefixes, j \in ObjectTexts, q \in Suffixes}

\* answers that hold no JSON object
GarbageTexts ==
    {<<"g", "a", "r", "b", "a", "g", "e">>, <<"4", "2">>, <<"[", "]">>, s_null,
     Quote \o <<"x">> \o Quote, <<"{">>, <<"}", " ", "{">>, <<" ", " ">>, Fence,
     <<"{">> \o Quote \o s_summary \o Quote \o <<":">>,
     [i \in 1..(SnippetChars - 1) |-> "x"],
     [i \in 1..SnippetChars |-> "x"],
     [i \in 1..(SnippetChars + 1) |-> "x"],
     <<"{">> \o [i \in 1..SnippetChars |-> "x"] \o <<"}">>}

Texts == StructTexts \cup WrappedTexts \cup GarbageTexts

NoResponse == [shape |-> "None", output_text |-> <<>>, output |-> <<>>]
ObjectResponse(text) == [shape |-> "object", output_text |-> text, output |-> <<>>]
Block(content) == [content |-> content, has_text |-> FALSE, text |-> <<>>]

Responses ==
    {ObjectResponse(t) : t \in Texts \cup {<<>>}}
    \cup {[shape |-> "dict", output_text |-> <<>>, output |-> o] :
            o \in {<<>>,
                   <<Block(<<Dumps(JDict(<<Item(s_summary, JStr(<<"x">>))>>))>>)>>,
                   <<Block(<<<<"{">>, <<"}">>>>), Block(<<>>)>>,
                   <<[content |-> <<>>, has_text |-> TRUE, text |-> <<"g">>]>>}}

\* transport and provider failures: subclasses of Exception raised by the client
s_timed_out == <<"t", "i", "m", "e", "d", " ", "o", "u", "t">>
s_refused == <<"r", "e", "f", "u", "s", "e", "d">>
TransportErrors ==
    {[type |-> "APITimeoutError", text |-> s_timed_out],
     [type |-> "APIConnectionError", text |-> s_refused],
     [type |-> "AuthenticationError", text |-> <<>>]}

Remote(kind, type, text, response) ==
    [kind |-> kind, type |-> type, text |-> text, response |-> response]

RemoteBehaviours ==
    {Remote("raises", e.type, e.text, NoResponse) : e \in TransportErrors}
    \cup {Remote("responds", "None", <<>>, r) : r \in Responses}

TimeoutChoices == {30, DefaultTimeout}

----------------------------------------------------------------------------
(* TextNormalizer (processor.py lines 18-43) *)

\* Characters outside printable ASCII are written as tokens:
\*   NBSP   U+00A0 no-break space         ZWSP   U+200B zero width space
\*   NUL    U+0000                        LSEP   U+2028 line separator
\*   ACUTE  U+0301 combining acute        AACUTE U+00E1 a with acute
\*   LSQUO  U+2018, LOW9 U+201A           LDQUO  U+201C, LOW99 U+201E
NBSP == "NBSP"
ZWSP == "ZWSP"
NUL == "NUL"
LSEP == "LSEP"
ACUTE == "ACUTE"
AACUTE == "AACUTE"
LSQUO == "LSQUO"
LOW9 == "LOW9"
LDQUO == "LDQUO"
LOW99 == "LOW99"
Apostrophe == "'"
DoubleQuote == "\""

\* the characters str.isspace() holds of, which str.strip() removes
UnicodeWhitespace == {" ", "\n", "\t", "\r", "\f", NBSP, LSEP}

\* unicodedata.category(c)[0]
category(c) == IF c \in {NUL, "\t", "\n", "\r", "\f", ZWSP} THEN "C"
               ELSE IF c \in {" ", NBSP, LSEP} THEN "Z"
               ELSE IF c = ACUTE THEN "M"
               ELSE IF c \in {LSQUO, LOW9, LDQUO, LOW99, Apostrophe, DoubleQuote} THEN "P"
               ELSE "L"

\* unicodedata.normalize('NFKC', text): compatibility decomposition (the
\* no-break space becomes a space) and canonical composition (a starter a
\* directly followed by the combining acute becomes the precomposed letter)
RECURSIVE nfkc(_)
nfkc(text) ==
    IF text = <<>> THEN <<>>
    ELSE IF Len(text) >= 2 /\ text[1] = "a" /\ text[2] = ACUTE
    THEN <<AACUTE>> \o nfkc(SubSeq(text, 3, Len(text)))
    ELSE <<(IF text[1] = NBSP THEN " " ELSE text[1])>> \o nfkc(Tail(text))

\* lines 30-31: drop the characters of category C other than \n, \r, \t
RECURSIVE remove_control(_)
remove_control(text) ==
    IF text = <<>> THEN <<>>
    ELSE (IF category(text[1]) # "C" \/ text[1] \in {"\n", "\r", "\t"}
          THEN <<text[1]>> ELSE <<>>) \o remove_control(Tail(text))

\* index of the first character at or after i that is not c (Len + 1 if none)
RECURSIVE RunEnd(_, _, _)
RunEnd(s, i, c) == IF i <= Len(s) /\ s[i] = c THEN RunEnd(s, i + 1, c) ELSE i

\* line 34: re.sub(r' {2,}', ' ', text)
RECURSIVE sub_multiple_spaces(_)
sub_multiple_spaces(text) ==
    IF text = <<>> THEN <<>>
    ELSE LET j == RunEnd(text, 1, " ")
         IN  IF j - 1 >= 2
             THEN <<" ">> \o sub_multiple_spaces(SubSeq(text, j, Len(text)))
             ELSE <<text[1]>> \o sub_multiple_spaces(Tail(text))

\* str.replace(old, new)
RECURSIVE replace(_, _, _)
replace(text, old, new) ==
    IF text = <<>> THEN <<>>
    ELSE IF StartsWith(text, old)
    THEN new \o replace(SubSeq(text, Len(old) + 1, Len(text)), old, new)
    ELSE <<text[1]>> \o replace(Tail(text), old, new)

\* line 35: text.replace('\r\n', '\n').replace('\r', '\n')
line_endings(text) == replace(replace(text, <<"\r", "\n">>, <<"\n">>), <<"\r">>, <<"\n">>)

\* line 36: re.sub(r' +\n', '\n', text)
RECURSIVE sub_trailing_spaces(_)
sub_trailing_spaces(text) ==
    IF text = <<>> THEN <<>>
    ELSE LET j == RunEnd(text, 1, " ")
         IN  IF j > 1 /\ j <= Len(text) /\ text[j] = "\n"
             THEN <<"\n">> \o sub_trailing_spaces(SubSeq(text, j + 1, Len(text)))
             ELSE IF j > 1
             THEN SubSeq(text, 1, j - 1) \o sub_trailing_spaces(SubSeq(text, j, Len(text)))
             ELSE <<text[1]>> \o sub_trailing_spaces(Tail(text))

\* line 37: re.sub(r'\n{3,}', '\n\n', text), written with the least run
\* length that is collapsed (3) and the replacement
RECURSIVE sub_newline_runs(_, _, _)
sub_newline_runs(text, least, repl) ==
    IF text = <<>> THEN <<>>
    ELSE LET j == RunEnd(text, 1, "\n")
         IN  IF j - 1 >= least
             THEN repl \o sub_newline_runs(SubSeq(text, j, Len(text)), least, repl)
             ELSE IF j > 1
             THEN SubSeq(text, 1, j - 1) \o sub_newline_runs(SubSeq(text, j, Len(text)), least, repl)
             ELSE <<text[1]>> \o sub_newline_runs(Tail(text), least, repl)

sub_blank_lines_to_one(text) == sub_newline_runs(text, 2, <<"\n">>)

sub_blank_lines(text) == sub_newline_runs(text, 3, <<"\n", "\n">>)

\* lines 40-41: the character classes as Python reads the two patterns: the
\* first holds U+201A only, the second the straight double quote and U+201E
sub_quotes(text) ==
    [i \in 1..Len(text) |->
        IF text[i] = LOW9 THEN Apostrophe
        ELSE IF text[i] \in {DoubleQuote, LOW99} THEN DoubleQuote
        ELSE text[i]]

\* line 43: text.strip()
RECURSIVE FirstNonSpace(_, _), LastNonSpace(_, _)
FirstNonSpace(s, i) ==
    IF i <= Len(s) /\ s[i] \in UnicodeWhitespace THEN FirstNonSpace(s, i + 1) ELSE i
LastNonSpace(s, i) ==
    IF i >= 1 /\ s[i] \in UnicodeWhitespace THEN LastNonSpace(s, i - 1) ELSE i
strip(s) == SubSeq(s, FirstNonSpace(s, 1), LastNonSpace(s, Len(s)))

\* TextNormalizer.normalize
normalize(text) ==
    IF text = <<>> THEN <<>>
    ELSE strip(sub_quotes(sub_blank_lines(sub_trailing_spaces(line_endings(
             sub_multiple_spaces(remove_control(nfkc(text))))))))

----------------------------------------------------------------------------
(* ContractProcessor (processor.py lines 46-220) *)

\* line 59
supported_formats == <<<<".", "p", "d", "f">>, <<".", "d", "o", "c", "x">>, <<".", "d", "o", "c">>>>

\* Path(file_path).suffix: the last component from its last dot on, unless
\* that dot is its first or its last character
suffix(path) ==
    LET name == SubSeq(path, RFind(path, "/") + 2, Len(path))
        i == RFind(name, ".")
    IN  IF 0 < i /\ i < Len(name) - 1 THEN SubSeq(name, i + 1, Len(name)) ELSE <<>>

\* what extract_text and its helpers hand back: the text or the exception,
\* the library entry points invoked, and the text as the helper returned it
Returned(text, calls, raw) ==
    [ok |-> TRUE, val |-> text, exc |-> NoExc, calls |-> calls, raw |-> raw]
Raised(e, calls) ==
    [ok |-> FALSE, val |-> <<>>, exc |-> e, calls |-> calls, raw |-> <<>>]

\* The libraries are outside the repository: lib.fails tells whether opening
\* the document ("open") or reading its content ("read") raises, lib.parts
\* holds the page texts (PDF) or the paragraph texts (DOCX); a page without
\* text yields the empty text.
Library(fails, parts) == [fails |-> fails, parts |-> parts]

\* str(e) of the exception the library raises: pypdf reports the defect of
\* the file, python-docx names the package path it could not open
pdf_error(path) == [type |-> "PdfReadError", text |-> <<"E", "O", "F", " ", "m", "a", "r", "k", "e", "r", " ", "n", "o", "t", " ", "f", "o", "u", "n", "d">>]
docx_error(path) ==
    [type |-> "PackageNotFoundError", text |-> <<"P", "a", "c", "k", "a", "g", "e", " ", "n", "o", "t", " ", "f", "o", "u", "n", "d", " ", "a", "t", " ", "'">> \o path \o <<"'">>]

\* lines 113-117: text += page_text + "\n" for the pages that have text
RECURSIVE page_texts(_)
page_texts(parts) ==
    IF parts = <<>> THEN <<>>
    ELSE (IF Head(parts) # <<>> THEN Head(parts) \o NL ELSE <<>>) \o page_texts(Tail(parts))

\* ContractProcessor._extract_from_pdf
extract_from_pdf(path, lib) ==
    IF lib.fails # "no"
    THEN Raised(Exc("Exception", "PDF extraction failed: ", pdf_error(path).text,
                    pdf_error(path).type), <<"PdfReader">>)
    ELSE LET text == page_texts(lib.parts)
         IN  IF strip(text) = <<>>
             THEN Returned(<<>>, <<"PdfReader">>, <<>>)
             ELSE Returned(text, <<"PdfReader">>, text)

\* lines 139-142: the paragraphs whose text is not blank
RECURSIVE paragraph_texts(_)
paragraph_texts(parts) ==
    IF parts = <<>> THEN <<>>
    ELSE (IF strip(Head(parts)) # <<>> THEN <<Head(parts)>> ELSE <<>>)
         \o paragraph_texts(Tail(parts))

\* ContractProcessor._extract_from_docx
extract_from_docx(path, lib) ==
    IF lib.fails # "no"
    THEN Raised(Exc("Exception", "DOCX extraction failed: ", docx_error(path).text,
                    docx_error(path).type), <<"docx.Document">>)
    ELSE LET full_text == Join(paragraph_texts(lib.parts), NL)
         IN  IF strip(full_text) = <<>>
             THEN Returned(<<>>, <<"docx.Document">>, <<>>)
             ELSE Returned(full_text, <<"docx.Document">>, full_text)

\* the order of the two checks, the other way round
validate_file_format_first(exists, file_extension) ==
    IF \A i \in 1..Len(supported_formats) : supported_formats[i] # file_extension
    THEN "unsupported"
    ELSE IF ~exists THEN "not_found"
    ELSE "ok"

\* lines 78-84: the path is checked, then the format
validate_file(exists, file_extension) ==
    IF ~exists THEN "not_found"
    ELSE IF \A i \in 1..Len(supported_formats) : supported_formats[i] # file_extension
    THEN "unsupported"
    ELSE "ok"

\* the clean argument alone
should_normalize_clean_only(cl, nt) == cl

\* line 97: if clean and self.normalize_text
should_normalize(cl, nt) == cl /\ nt

\* ContractProcessor.extract_text; the else branch of line 94 cannot be
\* taken, every supported format having a handler
extract_text(path, cl, exists, lib, nt) ==
    LET file_extension == Lower(suffix(path))
        checked == validate_file(exists, file_extension)
    IN  IF checked = "not_found"
        THEN Raised(Exc("FileNotFoundError", "File not found: ", path, "None"), <<>>)
        ELSE IF checked = "unsupported"
        THEN Raised(Exc("ValueError", "Unsupported file format: ", file_extension, "None"),
                    <<>>)
        ELSE LET res == IF file_extension = <<".", "p", "d", "f">>
                        THEN extract_from_pdf(path, lib)
                        ELSE extract_from_docx(path, lib)
             IN  IF ~res.ok THEN res
                 ELSE IF should_normalize(cl, nt)
                 THEN [res EXCEPT !.val = normalize(res.val)]
                 ELSE res

\* lines 203-207
contract_keywords ==
    <<<<"a", "g", "r", "e", "e", "m", "e", "n", "t">>,
      <<"c", "o", "n", "t", "r", "a", "c", "t">>,
      <<"p", "a", "r", "t", "y">>,
      <<"p", "a", "r", "t", "i", "e", "s">>,
      <<"t", "e", "r", "m", "s">>,
      <<"c", "o", "n", "d", "i", "t", "i", "o", "n", "s">>,
      <<"h", "e", "r", "e", "b", "y">>,
      <<"w", "h", "e", "r", "e", "a", "s">>,
      <<"s", "i", "g", "n", "e", "d">>,
      <<"e", "f", "f", "e", "c", "t", "i", "v", "e">>,
      <<"t", "e", "r", "m", "i", "n", "a", "t", "i", "o", "n">>>>

\* DefaultMinLength: the default of min_length (line 177)
DefaultMinLength == 100

\* the issue texts of lines 197 and 213, the numbers of the first kept apart
TooShort(chars, need) == [msg |-> "Text too short", chars |-> chars, need |-> need]
NotEnoughKeywords == [msg |-> "Not enough contract keywords found", chars |-> 0, need |-> 0]

\* line 210: the keywords that occur in text_lower, in the order of the list
RECURSIVE found_in(_, _)
found_in(keywords, text_lower) ==
    IF keywords = <<>> THEN <<>>
    ELSE (IF FindSub(text_lower, Head(keywords)) > 0 THEN <<Head(keywords)>> ELSE <<>>)
         \o found_in(Tail(keywords), text_lower)

\* two keywords are asked for (line 212)
MinKeywords == 2

\* the length check left out
validate_contract_text_unchecked_length(text, min_len) ==
    LET found_keywords == found_in(contract_keywords, Lower(text))
    IN  IF Len(found_keywords) < MinKeywords
        THEN [returned |-> [is_valid |-> FALSE, length_ok |-> TRUE,
                            has_contract_keywords |-> FALSE,
                            issues |-> <<NotEnoughKeywords>>],
              scanned |-> TRUE]
        ELSE [returned |-> [is_valid |-> TRUE, length_ok |-> TRUE,
                            has_contract_keywords |-> TRUE, issues |-> <<>>,
                            found_keywords |-> found_keywords],
              scanned |-> TRUE]

\* ContractProcessor.validate_contract_text: the dictionary returned, and
\* whether lines 209-210 (the keyword scan) were executed
validate_contract_text(text, min_len) ==
    IF Len(text) < min_len
    THEN [returned |-> [is_valid |-> FALSE, length_ok |-> FALSE,
                        has_contract_keywords |-> FALSE,
                        issues |-> <<TooShort(Len(text), min_len)>>],
          scanned |-> FALSE]
    ELSE LET found_keywords == found_in(contract_keywords, Lower(text))
         IN  IF Len(found_keywords) < MinKeywords
             THEN [returned |-> [is_valid |-> FALSE, length_ok |-> TRUE,
                                 has_contract_keywords |-> FALSE,
                                 issues |-> <<NotEnoughKeywords>>],
                   scanned |-> TRUE]
             ELSE [returned |-> [is_valid |-> TRUE, length_ok |-> TRUE,
                                 has_contract_keywords |-> TRUE, issues |-> <<>>,
                                 found_keywords |-> found_keywords],
                   scanned |-> TRUE]

----------------------------------------------------------------------------
(* analyze, step by step *)

AnalyzerInit ==
    /\ pc = "start"
    /\ steps = <<>>
    /\ timeout_seconds \in TimeoutChoices
    /\ client = client_options("key")
    /\ request = [model |-> "None"]
    /\ remote = Remote("none", "None", <<>>, NoResponse)
    /\ raw_response = NoResponse
    /\ text_stripped = <<>>
    /\ parsed = JNone
    /\ analysis = JNone
    /\ serialized = JNone
    /\ outcome = "none"
    /\ exc = NoExc
    /\ log = <<>>

\* the initial result dictionary of validate_contract_text (lines 188-193)
NoValidation ==
    [returned |-> [is_valid |-> FALSE, length_ok |-> FALSE,
                   has_contract_keywords |-> FALSE, issues |-> <<>>],
     scanned |-> FALSE]

\* no extract_text call made yet, on a processor built with the default flag
ExtractIdle ==
    /\ extract_pc = "idle"
    /\ file_path = <<>>
    /\ clean = TRUE
    /\ path_exists = FALSE
    /\ library = Library("no", <<>>)
    /\ library_calls = <<>>
    /\ extracted = <<>>
    /\ extract_result = [ok |-> FALSE, val |-> <<>>, exc |-> NoExc]

NormalizeIdle ==
    /\ norm_input = <<>>
    /\ norm_results = <<>>

ValidateIdle ==
    /\ val_pc = "idle"
    /\ val_text = <<>>
    /\ min_length = DefaultMinLength
    /\ val_result = NoValidation

Init ==
    /\ AnalyzerInit
    /\ normalize_text = TRUE
    /\ ExtractIdle
    /\ NormalizeIdle
    /\ ValidateIdle

\* the remote call made again after a failure
CallGptRetrying ==
    /\ pc = "start"
    /\ \E r \in RemoteBehaviours :
        LET res == call_gpt(r)
            again == ~res.ok /\ Len(steps) < 2
        IN  /\ remote' = r
            /\ request' = create_kwargs(ModelName)
            /\ raw_response' = (IF res.ok THEN res.val ELSE NoResponse)
            /\ pc' = (IF res.ok THEN "parse" ELSE IF again THEN "start" ELSE "done")
            /\ outcome' = (IF res.ok \/ again THEN "none" ELSE "raised")
            /\ exc' = (IF again THEN NoExc ELSE res.exc)
    /\ steps' = Append(steps, "_call_gpt")
    /\ UNCHANGED <<timeout_seconds, client, text_stripped, parsed, analysis,
                   serialized, log>>
    /\ UNCHANGED processor_vars

\* line 89: raw_response = self._call_gpt(system_prompt, user_prompt)
CallGpt ==
    /\ pc = "start"
    /\ \E r \in RemoteBehaviours :
        LET res == call_gpt(r)
        IN  /\ remote' = r
            /\ request' = create_kwargs(ModelName)
            /\ raw_response' = (IF res.ok THEN res.val ELSE NoResponse)
            /\ pc' = (IF res.ok THEN "parse" ELSE "done")
            /\ outcome' = (IF res.ok THEN "none" ELSE "raised")
            /\ exc' = res.exc
    /\ steps' = Append(steps, "_call_gpt")
    /\ UNCHANGED <<timeout_seconds, client, text_stripped, parsed, analysis,
                   serialized, log>>
    /\ UNCHANGED processor_vars

\* line 92: parsed = self._parse_response(raw_response)
ParseResponse ==
    /\ pc = "parse"
    /\ LET res == parse_response(raw_response)
       IN  /\ text_stripped' = res.stripped
           /\ log' = res.log
           /\ parsed' = res.val
           /\ pc' = (IF res.ok THEN "create" ELSE "done")
           /\ outcome' = (IF res.ok THEN "none" ELSE "raised")
           /\ exc' = res.exc
    /\ steps' = Append(steps, "_parse_response")
    /\ UNCHANGED <<timeout_seconds, client, request, remote, raw_response,
                   analysis, serialized>>
    /\ UNCHANGED processor_vars

\* line 94: analysis = self._create_analysis_object(parsed)
CreateAnalysisObject ==
    /\ pc = "create"
    /\ LET res == create_analysis_object(parsed)
       IN  /\ analysis' = res.val
           /\ pc' = (IF res.ok THEN "time" ELSE "done")
           /\ outcome' = (IF res.ok THEN "none" ELSE "raised")
           /\ exc' = res.exc
    /\ steps' = Append(steps, "_create_analysis_object")
    /\ UNCHANGED <<timeout_seconds, client, request, remote, raw_response,
                   text_stripped, parsed, serialized, log>>
    /\ UNCHANGED processor_vars

\* lines 95-98: processing_time is set and the analysis returned
SetProcessingTime ==
    /\ pc = "time"
    /\ \E elapsed \in 0..MaxElapsed :
        analysis' = set_processing_time(analysis, elapsed)
    /\ pc' = "done"
    /\ outcome' = "returned"
    /\ steps' = Append(steps, "processing_time")
    /\ UNCHANGED <<timeout_seconds, client, request, remote, raw_response,
                   text_stripped, parsed, serialized, exc, log>>
    /\ UNCHANGED processor_vars

\* the caller serializes the returned analysis (lines 342-343)
ToDict ==
    /\ pc = "done"
    /\ outcome = "returned"
    /\ serialized' = to_dict(analysis)
    /\ pc' = "serialized"
    /\ steps' = Append(steps, "to_dict")
    /\ UNCHANGED <<timeout_seconds, client, request, remote, raw_response,
                   text_stripped, parsed, analysis, outcome, exc, log>>
    /\ UNCHANGED processor_vars

Next ==
    \/ CallGpt
    \/ ParseResponse
    \/ CreateAnalysisObject
    \/ SetProcessingTime
    \/ ToDict

Spec == Init /\ [][Next]_vars

----------------------------------------------------------------------------
(* The processor: files, library behaviours and texts it is run on *)

MaxParts == 2
MaxWsLen == 5
MaxUniLen == 3
MaxNormalizeCalls == 2
MaxWords == 2
PadChars == 95

SeqsUpTo(A, n) == UNION {[1..k -> A] : k \in 0..n}

Paths ==
    {<<"c", ".", "p", "d", "f">>, <<"c", ".", "P", "D", "F">>, <<"c", ".", "d", "o", "c", "x">>, <<"c", ".", "D", "o", "c">>, <<"c", ".", "t", "x", "t">>, <<"c">>, <<".", "p", "d", "f">>,
     <<"c", ".", "p", "d", "f", ".", "b", "a", "k">>, <<"d", ".", "v", "1", "/", "c">>, <<"c", ".">>}

PartTexts == {<<>>, <<" ">>, <<"a", " ", " ", "b">>, <<LOW9, "a", " ", "\n", "b">>}

Libraries ==
    {Library("no", parts) : parts \in SeqsUpTo(PartTexts, MaxParts)}
    \cup {Library(f, <<>>) : f \in {"open", "read"}}

WsAlphabet == {"a", " ", "\n", "\r", "\t"}
UniAlphabet == {"a", " ", "\n", "\f", NBSP, ZWSP, LSEP, ACUTE, AACUTE,
                LSQUO, LOW9, LDQUO, LOW99}
NormTexts == SeqsUpTo(WsAlphabet, MaxWsLen) \cup SeqsUpTo(UniAlphabet, MaxUniLen)

Words ==
    {<<"A", "g", "r", "e", "e", "m", "e", "n", "t">>, <<"C", "O", "N", "T", "R", "A", "C", "T">>, <<"p", "a", "r", "t", "y">>, <<"P", "a", "r", "t", "i", "e", "s">>, <<"T", "e", "r", "m", "s">>, <<"s", "i", "g", "n", "e", "d">>, <<"h", "e", "l", "l", "o">>,
     <<"c", "o", "u", "n", "t", "e", "r", "p", "a", "r", "t", "y">>}
Pad(n) == [i \in 1..n |-> "."]
ValTexts == {Join(ws, <<" ">>) \o Pad(n) : ws \in SeqsUpTo(Words, MaxWords), n \in {0, PadChars}}
MinLengths == {0, 20, DefaultMinLength}

----------------------------------------------------------------------------
(* extract_text, called once on a processor built with either flag *)

ProcessorInit ==
    /\ AnalyzerInit
    /\ timeout_seconds = DefaultTimeout
    /\ normalize_text \in BOOLEAN
    /\ ExtractIdle
    /\ NormalizeIdle
    /\ ValidateIdle

ExtractText ==
    /\ extract_pc = "idle"
    /\ \E path \in Paths, exists \in BOOLEAN, cl \in BOOLEAN, lib \in Libraries :
        LET res == extract_text(path, cl, exists, lib, normalize_text)
        IN  /\ file_path' = path
            /\ clean' = cl
            /\ path_exists' = exists
            /\ library' = lib
            /\ library_calls' = res.calls
            /\ extracted' = res.raw
            /\ extract_result' = [ok |-> res.ok, val |-> res.val, exc |-> res.exc]
    /\ extract_pc' = "done"
    /\ UNCHANGED <<normalize_text, analyzer_vars, normalize_vars, validate_vars>>

ExtractSpec == ProcessorInit /\ [][ExtractText]_vars

(* normalize, applied to a text and again to its own results *)

NormalizeInit ==
    /\ AnalyzerInit
    /\ timeout_seconds = DefaultTimeout
    /\ normalize_text = TRUE
    /\ ExtractIdle
    /\ norm_input \in NormTexts
    /\ norm_results = <<>>
    /\ ValidateIdle

Normalize ==
    /\ Len(norm_results) < MaxNormalizeCalls
    /\ norm_results' =
         Append(norm_results,
                normalize(IF norm_results = <<>> THEN norm_input
                          ELSE norm_results[Len(norm_results)]))
    /\ UNCHANGED <<norm_input, analyzer_vars, extract_vars, validate_vars>>

NormalizeSpec == NormalizeInit /\ [][Normalize]_vars

(* validate_contract_text, called once *)

ValidateInit ==
    /\ AnalyzerInit
    /\ timeout_seconds = DefaultTimeout
    /\ normalize_text = TRUE
    /\ ExtractIdle
    /\ NormalizeIdle
    /\ val_pc = "idle"
    /\ val_text \in ValTexts
    /\ min_length \in MinLengths
    /\ val_result = NoValidation

ValidateContractText ==
    /\ val_pc = "idle"
    /\ val_result' = validate_contract_text(val_text, min_length)
    /\ val_pc' = "done"
    /\ UNCHANGED <<val_text, min_length, analyzer_vars, extract_vars, normalize_vars>>

ValidateSpec == ValidateInit /\ [][ValidateContractText]_vars

----------------------------------------------------------------------------
(* The error kinds of the design, as the code raises them *)

\* AnalysisError: raised at analyzer.py line 165 (the remote call failed) and
\* line 225 (no output text)
IsAnalysisError(e) ==
    /\ e.type = "RuntimeError"
    /\ e.msg \in {"AI analysis failed: ", "AI returned no output."}

\* ParseError: raised at analyzer.py line 256
IsParseError(e) ==
    /\ e.type = "RuntimeError"
    /\ e.msg = "Failed to parse AI response as JSON."

\* the raise statements of ContractAnalyzer: design kind and Python class
AnalyzerRaises ==
    {[kind |-> "AnalysisError", type |-> "RuntimeError"],
     [kind |-> "ParseError", type |-> "RuntimeError"]}

\* the raise statements of ContractProcessor.extract_text and its helpers
ProcessorRaises ==
    {[kind |-> "NotFoundError", type |-> "FileNotFoundError"],
     [kind |-> "UnsupportedFormatError", type |-> "ValueError"],
     [kind |-> "ExtractionError", type |-> "Exception"]}

\* the classes an except clause naming class c catches, among those raised
Subclasses(c) ==
    CASE c = "Exception" ->
            {"Exception", "RuntimeError", "ValueError", "OSError", "FileNotFoundError",
             "AttributeError", "TypeError"}
      [] c = "OSError" -> {"OSError", "FileNotFoundError"}
      [] OTHER -> {c}

KindOf(e) ==
    IF IsParseError(e) THEN "ParseError"
    ELSE IF IsAnalysisError(e) THEN "AnalysisError"
    ELSE "other"

StepsRun == Len(steps)
CallRan == StepsRun >= 1
ParseRan == StepsRun >= 2
CreateRan == StepsRun >= 3
Ended == pc \in {"done", "serialized"}
RaisedIn(n) == outcome = "raised" /\ StepsRun = n

----------------------------------------------------------------------------
(* Claims *)

\* a ContractAnalysis with its six fields, a RiskScore of five RiskLevels and
\* a list of RedFlag instances
FullyPopulated(a) ==
    /\ a.t = "ContractAnalysis"
    /\ \A k \in {s_summary, s_key_terms, s_red_flags, s_risk_score,
                 s_recommendations, s_processing_time} : HasKey(a, k)
    /\ Get(a, s_risk_score, JNone).t = "RiskScore"
    /\ \A i \in 1..Len(RiskFields) :
          Get(Get(a, s_risk_score, JNone), RiskFields[i], JNone).t = "RiskLevel"
    /\ Get(a, s_red_flags, JNone).t = "list"

\* C1: for every remote response and every output text, an analyze invocation
\* that has ended either returned a fully populated ContractAnalysis, or
\* raised AnalysisError, or raised ParseError; nothing else escapes.
C1_ThreeOutcomes ==
    Ended =>
        \/ outcome = "returned" /\ FullyPopulated(analysis)
        \/ outcome = "raised" /\ IsAnalysisError(exc)
        \/ outcome = "raised" /\ IsParseError(exc)

\* C2: the failure kinds reach the caller as pairwise distinct, separately
\* catchable kinds: when analyze has raised one of them, no raise statement
\* of another kind uses a class that the handler for this one catches, or
\* that catches this one, and the class is not the generic Exception.
C2_DistinctKinds ==
    (outcome = "raised" /\ KindOf(exc) # "other") =>
        /\ exc.type # "Exception"
        /\ \A r \in AnalyzerRaises \cup ProcessorRaises :
              r.kind # KindOf(exc) =>
                  /\ exc.type \notin Subclasses(r.type)
                  /\ r.type \notin Subclasses(exc.type)

\* C3: when the remote call raises a transport or provider exception, analyze
\* ends by raising AnalysisError (analyzer.py line 165) that carries the
\* original exception as its context and its text in the message; the
\* original class does not escape, and nothing is returned.
C3_TransportWrapped ==
    (CallRan /\ remote.kind = "raises") =>
        /\ pc = "done"
        /\ outcome = "raised"
        /\ IsAnalysisError(exc)
        /\ exc.msg = "AI analysis failed: "
        /\ exc.context = remote.type
        /\ exc.payload = remote.text
        /\ exc.type # remote.type
        /\ analysis.t = "NoneType"
        /\ StepsRun = 1

C3_Witness ==
    /\ pc = "done"
    /\ remote.kind = "raises"
    /\ remote.type = "APITimeoutError"
    /\ outcome = "raised"
    /\ exc.context = "APITimeoutError"

\* C4: every remote call is issued with the configured timeout, either as an
\* argument of the call or as an option of the client that issues it.
C4_TimeoutPassed ==
    CallRan =>
        \/ "timeout" \in DOMAIN request /\ request.timeout = timeout_seconds
        \/ "timeout" \in DOMAIN client /\ client.timeout = timeout_seconds

\* the output text of the model, for a response in the SDK shape
OutputText == raw_response.output_text

\* C5: an output prefix + J + suffix, J a JSON object and prefix and suffix
\* without braces, parses to exactly the fields of J.
C5_ProseWrapped ==
    (ParseRan /\ raw_response.shape = "object") =>
        \A p \in Prefixes, j \in ObjectTexts, q \in Suffixes :
            OutputText = p \o j \o q =>
                /\ ~RaisedIn(2)
                /\ parsed = json_loads(j).val

\* C6: an output that wraps a JSON object J in one fenced block, with or
\* without the json tag after the opening fence, parses to exactly the
\* fields of J.
C6_FencedObject ==
    (ParseRan /\ raw_response.shape = "object") =>
        \A tag \in {<<>>, s_json}, j \in ObjectTexts :
            OutputText = Fence \o tag \o NL \o j \o NL \o Fence =>
                /\ ~RaisedIn(2)
                /\ parsed = json_loads(j).val

\* neither json.loads of the text nor json.loads of its first-brace-to-last-
\* brace slice succeeds
NeitherParses(t) ==
    /\ ~json_loads(t).ok
    /\ LET c == brace_candidate(t) IN ~(c.ok /\ json_loads(c.text).ok)

ParseFailureCase ==
    /\ ParseRan
    /\ extract_text_from_response(raw_response) # <<>>
    /\ NeitherParses(text_stripped)

IsPrefix(a, b) == Len(a) <= Len(b) /\ a = SubSeq(b, 1, Len(a))

LevelOf(d, key) ==
    LET x == Get(d, key, JNone)
    IN  IF x.t = "str" /\ Lower(x.v) \in RiskLevelValues THEN Lower(x.v) ELSE s_medium

DictEntries(xs) == SelectSeq(xs, LAMBDA e : e.t = "dict")

\* C8: for parsed output whose risk_score is a mapping (or absent) and whose
\* red_flags is a list (or absent), the analysis is built without an error,
\* every RiskScore field is the level its input value stands for and medium
\* when that value is absent or unrecognized, and so is the severity of the
\* red flag of every entry that is a mapping.
C8_RiskLevelsCoerced ==
    (/\ CreateRan
     /\ parsed.t = "dict"
     /\ Get(parsed, s_risk_score, JDict(<<>>)).t = "dict"
     /\ Get(parsed, s_red_flags, JList(<<>>)).t = "list") =>
        /\ ~RaisedIn(3)
        /\ analysis.t = "ContractAnalysis"
        /\ \A i \in 1..Len(RiskFields) :
              Get(Get(analysis, s_risk_score, JNone), RiskFields[i], JNone)
                = RiskLevel(LevelOf(Get(parsed, s_risk_score, JDict(<<>>)), RiskFields[i]))
        /\ LET entries == DictEntries(Get(parsed, s_red_flags, JList(<<>>)).v)
               flags == Get(analysis, s_red_flags, JNone).v
           IN  /\ Len(flags) = Len(entries)
               /\ \A i \in 1..Len(entries) :
                     Get(flags[i], s_severity, JNone) = RiskLevel(LevelOf(entries[i], s_severity))

\* an entry from which a RedFlag can be constructed: a mapping whose severity
\* is absent, falsy or a string
Constructible(e) ==
    /\ e.t = "dict"
    /\ LET x == Get(e, s_severity, JNone) IN ~Truthy(x) \/ x.t = "str"

WellFormedEntries(xs) == SelectSeq(xs, Constructible)

\* the parsed output with the entries that cannot be constructed removed
WithoutMalformed(data) ==
    JDict(SetItem(data.v, s_red_flags,
                  JList(WellFormedEntries(Get(data, s_red_flags, JNone).v))))

ResultFields == <<s_summary, s_key_terms, s_red_flags, s_risk_score, s_recommendations>>

\* C9: for parsed output whose red_flags is a list, the entries that cannot
\* be constructed are skipped: the step raises exactly when it raises
\* without them, and otherwise red_flags holds one RedFlag per other entry,
\* in order, and every field of the result is what it is without them.
C9_MalformedSkipped ==
    (/\ CreateRan
     /\ parsed.t = "dict"
     /\ Get(parsed, s_red_flags, JNone).t = "list") =>
        LET entries == Get(parsed, s_red_flags, JNone).v
            good == WellFormedEntries(entries)
            ref == create_analysis_object(WithoutMalformed(parsed))
        IN  /\ RaisedIn(3) <=> ~ref.ok
            /\ RaisedIn(3) => exc = ref.exc
            /\ ~RaisedIn(3) =>
                /\ \A i \in 1..Len(ResultFields) :
                      Get(analysis, ResultFields[i], JNone) = Get(ref.val, ResultFields[i], JNone)
                /\ Len(Get(analysis, s_red_flags, JNone).v) = Len(good)
                /\ \A i \in 1..Len(good) :
                      Get(Get(analysis, s_red_flags, JNone).v[i], s_clause_text, JNone)
                        = Get(good[i], s_clause_text, JStr(<<>>))

\* a malformed entry between two well-formed ones was skipped
C9_Witness ==
    /\ pc = "time"
    /\ parsed.t = "dict"
    /\ Get(parsed, s_red_flags, JNone).t = "list"
    /\ Len(Get(parsed, s_red_flags, JNone).v) = 3
    /\ ~Constructible(Get(parsed, s_red_flags, JNone).v[2])
    /\ Len(Get(analysis, s_red_flags, JNone).v) = 2
    /\ Get(Get(analysis, s_red_flags, JNone).v[2], s_clause_text, JNone) = JStr(<<"b">>)

\* only primitives, lists and mappings, at every depth
RECURSIVE Plain(_)
Plain(x) ==
    CASE x.t \in {"str", "int", "float", "bool", "NoneType"} -> TRUE
      [] x.t = "list" -> \A i \in 1..Len(x.v) : Plain(x.v[i])
      [] x.t = "dict" -> \A i \in 1..Len(x.v) : Plain(x.v[i].x)
      [] OTHER -> FALSE

IsLevelString(x) == x.t = "str" /\ x.v \in RiskLevelValues

\* C10: the result of to_dict holds only primitives, lists and mappings;
\* each of the five risk_score entries and the severity of each red flag is
\* the lower-case string of the RiskLevel the analysis holds there.
C10_PlainDict ==
    pc = "serialized" =>
        /\ serialized.t = "dict"
        /\ Plain(serialized)
        /\ \A i \in 1..Len(RiskFields) :
              LET out == Get(Get(serialized, s_risk_score, JNone), RiskFields[i], JNone)
              IN  /\ IsLevelString(out)
                  /\ out.v = Get(Get(analysis, s_risk_score, JNone), RiskFields[i], JNone).v
        /\ LET flags == Get(analysis, s_red_flags, JNone).v
               out == Get(serialized, s_red_flags, JNone).v
           IN  /\ Len(out) = Len(flags)
               /\ \A i \in 1..Len(flags) :
                     /\ IsLevelString(Get(out[i], s_severity, JNone))
                     /\ Get(out[i], s_severity, JNone).v = Get(flags[i], s_severity, JNone).v

\* a serialized analysis with a high-severity red flag and a risk_score
\* field that is not medium
C10_Witness ==
    /\ pc = "serialized"
    /\ Len(Get(serialized, s_red_flags, JNone).v) >= 1
    /\ Get(Get(serialized, s_red_flags, JNone).v[1], s_severity, JNone) = JStr(s_high)
    /\ Get(Get(serialized, s_risk_score, JNone), s_fairness, JNone) = JStr(s_low)

----------------------------------------------------------------------------
(* Claims on the processor *)

ExtractDone == extract_pc = "done"

\* the extension of a path as the design speaks of it: what follows the last
\* dot of the last path component, letter case aside; empty without a dot
ExtensionOf(path) ==
    LET slashes == {i \in 1..Len(path) : path[i] = "/"}
        name == IF slashes = {} THEN path ELSE SubSeq(path, Max(slashes) + 1, Len(path))
        dots == {i \in 1..Len(name) : name[i] = "."}
    IN  IF dots = {} THEN <<>>
        ELSE [i \in 1..(Len(name) - Max(dots)) |-> LowerChar(name[Max(dots) + i])]

DesignFormats == {<<"p", "d", "f">>, <<"d", "o", "c", "x">>, <<"d", "o", "c">>}

\* NotFoundError, UnsupportedFormatError and ExtractionError as raised at
\* processor.py lines 79, 84, 129 and 155
IsNotFoundError(e) == e.type = "FileNotFoundError"
IsUnsupportedFormatError(e) == e.type = "ValueError"
IsExtractionError(e) ==
    /\ e.type = "Exception"
    /\ e.msg \in {"PDF extraction failed: ", "DOCX extraction failed: "}

\* C11: extract_text checks the path before the format: a path that does not
\* exist fails with NotFoundError whatever its extension, an existing path
\* whose extension is outside pdf, docx, doc fails with UnsupportedFormatError,
\* and in both cases no extraction library is invoked and no text returned.
C11_PathBeforeFormat ==
    ExtractDone =>
        /\ ~path_exists =>
              /\ ~extract_result.ok
              /\ IsNotFoundError(extract_result.exc)
              /\ library_calls = <<>>
        /\ (path_exists /\ ExtensionOf(file_path) \notin DesignFormats) =>
              /\ ~extract_result.ok
              /\ IsUnsupportedFormatError(extract_result.exc)
              /\ library_calls = <<>>

\* a missing path with an unsupported extension was refused as missing
C11_Witness ==
    /\ ExtractDone
    /\ ~path_exists
    /\ ExtensionOf(file_path) = <<"t", "x", "t">>
    /\ IsNotFoundError(extract_result.exc)
    /\ library_calls = <<>>

\* the library was invoked and raised
LibraryFailed == ExtractDone /\ library_calls # <<>> /\ library.fails # "no"

\* the class of the exception the invoked library raised
LibraryErrorType ==
    IF library_calls = <<"PdfReader">> THEN pdf_error(file_path).type
    ELSE docx_error(file_path).type

\* the exception names the file: the path occurs in its text (it has no
\* other attribute than its message)
CarriesPath(e, path) == FindSub(e.payload, path) > 0

\* C12: whenever the PDF or DOCX library fails during extract_text, the caller
\* receives an ExtractionError that carries the original cause and the file
\* path, never the raw library exception.
C12_ExtractionErrorCarriesCauseAndPath ==
    LibraryFailed =>
        /\ ~extract_result.ok
        /\ IsExtractionError(extract_result.exc)
        /\ extract_result.exc.type # LibraryErrorType
        /\ extract_result.exc.context = LibraryErrorType
        /\ CarriesPath(extract_result.exc, file_path)

\* C13 as stated: with the normalize argument true the returned text is the
\* normalizer output of the raw extracted text, with the argument false it is
\* the raw extracted text.
C13_ArgumentDecides ==
    (ExtractDone /\ extract_result.ok) =>
        extract_result.val = (IF clean THEN normalize(extracted) ELSE extracted)

\* C13 as amended: the returned text is the normalizer output of the raw
\* extracted text when the clean argument is true and the processor was built
\* with normalize_text true; otherwise it is the raw extracted text.
C13_ArgumentAndFlagDecide ==
    (ExtractDone /\ extract_result.ok) =>
        extract_result.val =
            (IF clean /\ normalize_text THEN normalize(extracted) ELSE extracted)

\* a call with both switches on returned a text normalization had changed
C13_Witness ==
    /\ ExtractDone
    /\ extract_result.ok
    /\ clean
    /\ normalize_text
    /\ extract_result.val # extracted
    /\ extract_result.val = normalize(extracted)

\* C14: normalize is idempotent: normalizing the result of normalize gives
\* that result again, for every text, texts with control and format
\* characters, combining marks, carriage returns and curly quotes included.
C14_NormalizeIdempotent ==
    Len(norm_results) >= 2 => norm_results[2] = norm_results[1]

\* no two spaces in a row
NoLongSpaceRun(t) == \A i \in 1..(Len(t) - 1) : ~(t[i] = " " /\ t[i + 1] = " ")

\* a text with each line break (CR LF, CR or LF) written as one LF
RECURSIVE UnifyBreaks(_)
UnifyBreaks(t) ==
    IF t = <<>> THEN <<>>
    ELSE IF Len(t) >= 2 /\ t[1] = "\r" /\ t[2] = "\n"
    THEN <<"\n">> \o UnifyBreaks(SubSeq(t, 3, Len(t)))
    ELSE <<(IF t[1] = "\r" THEN "\n" ELSE t[1])>> \o UnifyBreaks(Tail(t))

LineBreaks(t) == Cardinality({i \in 1..Len(UnifyBreaks(t)) : UnifyBreaks(t)[i] = "\n"})

\* the whitespace of a text, in order, line breaks unified
WhitespaceOf(t) == SelectSeq(UnifyBreaks(t), LAMBDA c : c \in UnicodeWhitespace)

\* a text without the whitespace at its very start and very end
Interior(t) ==
    LET kept == {i \in 1..Len(t) : t[i] \notin UnicodeWhitespace}
    IN  IF kept = {} THEN <<>> ELSE SubSeq(t, Min(kept), Max(kept))

\* the text as steps 1 and 2 of normalize leave it
AfterUnicodeSteps(t) == remove_control(nfkc(t))

\* no space directly before a line break, no more than two line breaks in a row
NoSpaceBeforeBreak(t) ==
    \A i \in 1..(Len(t) - 1) : ~(t[i] = " " /\ t[i + 1] \in {"\n", "\r"})
NoLongBreakRun(t) ==
    LET u == UnifyBreaks(t)
    IN  \A i \in 1..(Len(u) - 2) : ~(u[i] = "\n" /\ u[i + 1] = "\n" /\ u[i + 2] = "\n")

\* normalize adds no line break and keeps the whitespace inside the text
KeepsInnerWhitespace(t, result) ==
    /\ LineBreaks(result) <= LineBreaks(t)
    /\ WhitespaceOf(result) = WhitespaceOf(Interior(AfterUnicodeSteps(t)))

\* C15 as stated: for every text with no run of spaces longer than one,
\* normalize introduces no line break the text did not have, and the only
\* whitespace it removes is whitespace at the very start and very end.
C15_OnlyBoundaryWhitespaceRemoved ==
    (Len(norm_results) >= 1 /\ NoLongSpaceRun(norm_input)) =>
        KeepsInnerWhitespace(norm_input, norm_results[1])

\* C15 as amended: for every text that, after the Unicode steps of normalize,
\* has no run of spaces longer than one, no space directly before a line
\* break and no more than two line breaks in a row, normalize introduces no
\* line break and removes only the whitespace at the very start and very end.
C15_SettledTextKeepsInnerWhitespace ==
    (/\ Len(norm_results) >= 1
     /\ NoLongSpaceRun(AfterUnicodeSteps(norm_input))
     /\ NoSpaceBeforeBreak(AfterUnicodeSteps(norm_input))
     /\ NoLongBreakRun(AfterUnicodeSteps(norm_input))) =>
        KeepsInnerWhitespace(norm_input, norm_results[1])

\* a text with whitespace at its start and a CR LF line break inside was
\* normalized
C15_Witness ==
    /\ Len(norm_results) >= 1
    /\ norm_input = <<" ", "a", "\r", "\n", "a">>
    /\ norm_results[1] = <<"a", "\n", "a">>

\* the keyword occurs in the text, letter case aside
OccursIn(kw, text) ==
    \E i \in 1..(Len(text) - Len(kw) + 1) :
        \A j \in 1..Len(kw) : LowerChar(text[i + j - 1]) = kw[j]

KeywordHits(text) ==
    Cardinality({i \in 1..Len(contract_keywords) : OccursIn(contract_keywords[i], text)})

\* C16: validate_contract_text returns, and is_valid is true exactly when the
\* text has at least min_length characters and at least 2 distinct keywords
\* of the list occur in it case-insensitively; a text shorter than min_length
\* is invalid and the keyword scan is not performed.
C16_ValidityCriterion ==
    val_pc = "done" =>
        /\ val_result.returned.is_valid =
              (Len(val_text) >= min_length /\ KeywordHits(val_text) >= 2)
        /\ Len(val_text) < min_length =>
              /\ ~val_result.returned.is_valid
              /\ ~val_result.scanned

\* a text of two keywords, too short for the default min_length, was refused
\* without a scan
C16_Witness ==
    /\ val_pc = "done"
    /\ min_length = DefaultMinLength
    /\ Len(val_text) < min_length
    /\ KeywordHits(val_text) >= 2
    /\ ~val_result.returned.is_valid
    /\ ~val_result.scanned

----------------------------------------------------------------------------
(* Claims on the order of the steps of analyze *)

AnalyzeSteps == <<"_call_gpt", "_parse_response", "_create_analysis_object", "processing_time">>

\* the steps of analyze itself, the later to_dict of the caller aside
StepsOfAnalyze == SubSeq(steps, 1, IF Len(steps) > 4 THEN 4 ELSE Len(steps))

\* C17: one analyze invocation runs its steps at most once each and in the
\* fixed order remote call, parsing, assembly, processing_time; when a step
\* fails the invocation ends there: the remote call is not retried, no later
\* step runs and no ContractAnalysis is returned.
C17_StepsOnceInOrder ==
    /\ [](/\ IsPrefix(StepsOfAnalyze, AnalyzeSteps)
          /\ outcome = "returned" => StepsOfAnalyze = AnalyzeSteps
          /\ outcome = "raised" => (pc = "done" /\ analysis = JNone /\ serialized = JNone))
    /\ [][outcome = "raised" => UNCHANGED analyzer_vars]_vars

\* the parsing step failed after the one remote call
C17_Witness ==
    /\ outcome = "raised"
    /\ steps = <<"_call_gpt", "_parse_response">>
    /\ IsParseError(exc)

====
